---- MODULE Spec2Model ----
(***************************************************************************)
(* A model of sync_folder.py: the one-directional reconciliation of a      *)
(* destination tree with a source tree (sync_folders and its helpers).     *)
(*                                                                         *)
(* A tree is a function from relative paths to entries.  A relative path   *)
(* is the sequence of its components, so that os.sep counts, dirname and   *)
(* basename are computed on it as the code computes them on strings.       *)
(***************************************************************************)
EXTENDS Naturals, Sequences, FiniteSets, TLC

\* Modification times range over 1..MaxTime.
MaxTime == 2

\* How many entries an external actor may add to the destination (SpecExt).
MaxExt == 1

\* A counter of attempts stops at MaxAttempts.
MaxAttempts == 2

\* len(copy_tasks) ranges over 1..MaxCopy and cpu_count() is at most MaxCpu
\* (the chunking of the copy set).
MaxCopy == 10100

MaxCpu == 101

-----------------------------------------------------------------------------
(* Paths, names and entries *)

Root == << >>

\* The relative paths of the reconciliation runs: a root file, a name that
\* may be a file or a directory, a nested name that may be either, and a
\* nested resource-fork file.
MainPaths == { <<"f">>, <<"a">>, <<"a", "b">>, <<"a", "._j">> }

\* Root-level names of the skip list (and one more resource-fork name).
JunkRootPaths ==
  { <<".DS_Store">>, <<"Thumbs.db">>, <<"Desktop.ini">>, <<".localized">>, <<"._x">> }

Paths == MainPaths \cup JunkRootPaths

Parent(p) == SubSeq(p, 1, Len(p) - 1)

Basename(p) == p[Len(p)]

\* rel_path.count(os.sep)
SepCount(p) == Len(p) - 1

\* The characters of each file name of the model.
NameChars(n) ==
  CASE n = "f" -> <<"f">>
    [] n = "a" -> <<"a">>
    [] n = "b" -> <<"b">>
    [] n = "._j" -> <<".", "_", "j">>
    [] n = "._x" -> <<".", "_", "x">>
    [] n = ".DS_Store" -> <<".", "D", "S", "_", "S", "t", "o", "r", "e">>
    [] n = "Thumbs.db" -> <<"T", "h", "u", "m", "b", "s", ".", "d", "b">>
    [] n = "Desktop.ini" -> <<"D", "e", "s", "k", "t", "o", "p", ".", "i", "n", "i">>
    [] n = ".localized" -> <<".", "l", "o", "c", "a", "l", "i", "z", "e", "d">>

NoEntry == [kind |-> "none", content |-> << >>, mtime |-> 0]

File(c, m) == [kind |-> "file", content |-> c, mtime |-> m]

Dir(m) == [kind |-> "dir", content |-> << >>, mtime |-> m]

EmptyTree == [p \in Paths |-> NoEntry]

\* The content of the source file at p, and two other contents a destination
\* file at p may hold: one with another digest and one with the same digest.
SrcContent(p) == <<"src", p>>

OldContent(p) == <<"old", p>>

CollidingContent(p) == <<"collide", p>>

\* file_hash: the MD5 digest of a file's content.  A digest has 128 bits, so
\* distinct contents can share one: CollidingContent(p) and SrcContent(p) do.
file_hash(content) ==
  IF Len(content) = 2 /\ content[1] = "collide" THEN <<"md5", SrcContent(content[2])>>
                            ELSE <<"md5", content>>

-----------------------------------------------------------------------------
(* should_skip_file *)

skip_files ==
  { ".DS_Store", "._.DS_Store", "Thumbs.db", "Desktop.ini", ".localized", "__MACOSX" }

StartsWith(cs, prefix) ==
  /\ Len(cs) >= Len(prefix)
  /\ SubSeq(cs, 1, Len(prefix)) = prefix

\* Without the resource-fork prefix test.
should_skip_file_no_prefix(filename) == filename \in skip_files

should_skip_file(filename) ==
  IF StartsWith(NameChars(filename), <<".", "_">>) THEN TRUE
  ELSE filename \in skip_files

-----------------------------------------------------------------------------
(* Scans *)

\* A scan that does not descend into the directories.
scan_files_top_only(tree, apply_skip_filter) ==
  { p \in Paths : /\ Len(p) = 1
                  /\ tree[p].kind = "file"
                  /\ ~(apply_skip_filter /\ should_skip_file(Basename(p))) }

\* scan_files(base_dir, apply_skip_filter): the relative paths of the files.
scan_files(tree, apply_skip_filter) ==
  { p \in Paths : /\ tree[p].kind = "file"
                  /\ ~(apply_skip_filter /\ should_skip_file(Basename(p))) }

\* scan_directories(base_dir): the relative paths of the directories.
scan_directories(tree) == { p \in Paths : tree[p].kind = "dir" }

\* os.listdir(abs_dst)
listdir(tree, d) ==
  { p \in Paths : Len(p) = Len(d) + 1 /\ Parent(p) = d /\ tree[p].kind # "none" }

-----------------------------------------------------------------------------
(* Directory creation *)

\* os.makedirs(name, exist_ok=True) under the destination root, which exists
\* when this is called.  A missing parent is made first; os.mkdir then fails
\* when the name exists or its parent is not a directory, and the failure is
\* passed over only when the name is a directory.
RECURSIVE makedirs(_, _)
makedirs(tree, name) ==
  IF name = Root THEN [ok |-> TRUE, tree |-> tree]
  ELSE
    LET head == Parent(name)
        up == IF head # Root /\ tree[head].kind = "none"
                THEN makedirs(tree, head)
                ELSE [ok |-> TRUE, tree |-> tree]
    IN  IF ~up.ok THEN up
        ELSE IF up.tree[name].kind = "dir" THEN up
        ELSE IF up.tree[name].kind = "file" THEN [ok |-> FALSE, tree |-> up.tree]
        ELSE IF head # Root /\ up.tree[head].kind # "dir"
          THEN [ok |-> FALSE, tree |-> up.tree]
        ELSE [ok |-> TRUE, tree |-> [up.tree EXCEPT ![name] = Dir(MaxTime)]]

\* The loop of sync_directories over the source directories, parents first
\* (os.walk is top-down).  An exception of os.makedirs is not caught: the
\* loop ends there (ok = FALSE).
RECURSIVE sync_directories_loop(_, _)
sync_directories_loop(tree, todo) ==
  IF todo = {} THEN [ok |-> TRUE, tree |-> tree]
  ELSE
    LET d == CHOOSE x \in todo : \A y \in todo : SepCount(x) <= SepCount(y)
    IN  IF tree[d].kind # "none" THEN sync_directories_loop(tree, todo \ {d})
        ELSE LET r == makedirs(tree, d)
             IN  IF r.ok THEN sync_directories_loop(r.tree, todo \ {d}) ELSE r

sync_directories(source, destination) ==
  sync_directories_loop(destination, scan_directories(source))

-----------------------------------------------------------------------------
(* The change classifier and the plan *)

\* file_hash(dst_file) raises when dst_file is a directory; it is reached
\* when the source is newer.
should_copy_raises(s, d) == d.kind = "dir" /\ s.mtime > d.mtime

\* The comparison of the times reversed.
should_copy_reversed(s, d) ==
  IF d.kind = "none" THEN TRUE
  ELSE IF s.mtime < d.mtime THEN file_hash(s.content) # file_hash(d.content)
  ELSE FALSE

\* The digests compared also when the times are equal.
should_copy_not_older(s, d) ==
  IF d.kind = "none" THEN TRUE
  ELSE IF s.mtime >= d.mtime THEN file_hash(s.content) # file_hash(d.content)
  ELSE FALSE

should_copy(s, d) ==
  IF d.kind = "none" THEN TRUE
  ELSE IF s.mtime > d.mtime THEN file_hash(s.content) # file_hash(d.content)
  ELSE FALSE

plan_raises(source, destination) ==
  \E p \in scan_files(source, TRUE) : should_copy_raises(source[p], destination[p])

\* (Variant: every source file is copied, should_copy is not asked.)
plan_copy_tasks_always(source, destination) == scan_files(source, TRUE)

plan_copy_tasks(source, destination) ==
  { p \in scan_files(source, TRUE) : should_copy(source[p], destination[p]) }

\* (Variant: every destination file is deleted.)
plan_delete_tasks_all(source, destination) == scan_files(destination, FALSE)

\* The delete set without the junk files the source also holds.
plan_delete_tasks_absent_only(source, destination) ==
  LET src_rel_paths == scan_files(source, FALSE)
  IN  { p \in scan_files(destination, FALSE) : p \notin src_rel_paths }

plan_delete_tasks(source, destination) ==
  LET src_rel_paths == scan_files(source, TRUE)
  IN  { p \in scan_files(destination, FALSE) :
          should_skip_file(Basename(p)) \/ p \notin src_rel_paths }

\* delete_file(path)
delete_file(tree, p) ==
  IF tree[p].kind # "none" THEN [tree EXCEPT ![p] = NoEntry] ELSE tree

\* The entry of sync_folders: the check of the source root, then the
\* creation of the destination root.
\* (Variant: the destination root made before the source is checked.)
sync_folders_entry_mkdir_first(source_exists, destination_exists) ==
  [raises |-> ~source_exists, destination_exists |-> TRUE]

sync_folders_entry(source_exists, destination_exists) ==
  IF ~source_exists
    THEN [raises |-> TRUE, destination_exists |-> destination_exists]
    ELSE [raises |-> FALSE, destination_exists |-> TRUE]

\* The destination directories remove_obsolete_directories examines: those
\* whose relative path is not a source directory.
obsolete_directories(source, destination) ==
  { d \in scan_directories(destination) : d \notin scan_directories(source) }

\* dst_dirs.sort(key = number of separators, reverse=True): d may come next
\* when no remaining directory is deeper.
\* (Variant: the sort ascending.)
sorted_first_shallowest(d, dirs) == \A e \in dirs : SepCount(d) <= SepCount(e)

sorted_first(d, dirs) == \A e \in dirs : SepCount(e) <= SepCount(d)

-----------------------------------------------------------------------------
(* State *)

VARIABLES
  src,           \* the source tree
  srcRoot,       \* whether source_folder exists
  dst,           \* the destination tree
  dstRoot,       \* whether destination_folder exists
  dst0,          \* the destination tree when the current run started
  dstRoot0,      \* whether destination_folder existed then
  run,           \* "first" or "second": which call of sync_folders this is
  pc,            \* where the call is
  copy_tasks,    \* the copy set (relative paths)
  delete_tasks,  \* the delete set (relative paths)
  copy_state,    \* each copy task: "todo", "written", "done" or "failed"
  delete_state,  \* each delete task: "todo", "checked", "done" or "failed"
  dst_dirs,      \* remove_obsolete_directories: the directories still to examine
  removing,      \* the directory found empty and about to be removed, or Root
  log,           \* the warnings and errors of the current run
  ext,           \* how many times the external actor has acted
  attempts,      \* how many times each task of the current run was started
  copy_count,    \* len(copy_tasks) of the chunking
  cpus,          \* cpu_count()
  chunks         \* the chunks handed to the pool: slices [from, to) of copy_tasks

vars ==
  << src, srcRoot, dst, dstRoot, dst0, dstRoot0, run, pc, copy_tasks,
     delete_tasks, copy_state, delete_state, dst_dirs, removing, log, ext,
     attempts, copy_count, cpus, chunks >>

\* The variables of the chunking, which the tasks of a run leave alone.
chunk_vars == << copy_count, cpus, chunks >>

-----------------------------------------------------------------------------
(* Initial trees *)

DirPaths == { <<"a">>, <<"a", "b">> }

JunkPaths == JunkRootPaths \cup { <<"a", "._j">> }

Times == 1..MaxTime

SrcEntries(p) ==
  {NoEntry}
    \cup (IF p \in JunkPaths THEN { File(SrcContent(p), 1) }
          ELSE { File(SrcContent(p), m) : m \in Times })
    \cup (IF p \in DirPaths THEN { Dir(1) } ELSE {})

DstEntries(p) ==
  {NoEntry}
    \cup (IF p \in JunkPaths THEN { File(OldContent(p), 1) }
          ELSE { File(c, m) : c \in { SrcContent(p), OldContent(p), CollidingContent(p) },
                              m \in Times })
    \cup (IF p \in DirPaths THEN { Dir(m) : m \in Times } ELSE {})

\* An entry exists only inside a directory.
WellFormed(tree) ==
  \A p \in Paths :
    (Len(p) > 1 /\ tree[p].kind # "none") => tree[Parent(p)].kind = "dir"

MainTree(ef, ea, eb, ej) ==
  [p \in Paths |->
     CASE p = <<"f">> -> ef
       [] p = <<"a">> -> ea
       [] p = <<"a", "b">> -> eb
       [] p = <<"a", "._j">> -> ej
       [] OTHER -> NoEntry]

SrcTrees ==
  { t \in { MainTree(ef, ea, eb, ej) :
              ef \in SrcEntries(<<"f">>), ea \in SrcEntries(<<"a">>),
              eb \in SrcEntries(<<"a", "b">>), ej \in SrcEntries(<<"a", "._j">>) } :
      WellFormed(t) }

DstTrees ==
  { t \in { MainTree(ef, ea, eb, ej) :
              ef \in DstEntries(<<"f">>), ea \in DstEntries(<<"a">>),
              eb \in DstEntries(<<"a", "b">>), ej \in DstEntries(<<"a", "._j">>) } :
      WellFormed(t) }

\* Trees whose times are all 1 and whose files hold no colliding content.
PlainSrcTrees == { t \in SrcTrees : \A p \in Paths : t[p].mtime <= 1 }

PlainDstTrees ==
  { t \in DstTrees :
      \A p \in Paths : t[p].mtime <= 1 /\ t[p].content # CollidingContent(p) }

\* Plain trees without the nested name b, with at most one root-level junk file.
WithJunk(trees, in_source) ==
  LET base == { t \in trees : t[<<"a", "b">>].kind = "none" /\ t[<<"a">>].kind # "file" }
  IN  base \cup { [t EXCEPT ![q] = File(IF in_source THEN SrcContent(q) ELSE OldContent(q), 1)] : t \in base, q \in JunkRootPaths }

JunkSrcTrees == WithJunk(PlainSrcTrees, TRUE)

JunkDstTrees == WithJunk(PlainDstTrees, FALSE)

NoTasks == [p \in {} |-> "todo"]

NoAttempts == [t \in {"copy", "delete"} \X Paths |-> 0]

InitFrom(sources, destinations) ==
  /\ srcRoot \in BOOLEAN
  /\ src \in (IF srcRoot THEN sources ELSE {EmptyTree})
  /\ dstRoot \in BOOLEAN
  /\ dst \in (IF dstRoot THEN destinations ELSE {EmptyTree})
  /\ dst0 = dst
  /\ dstRoot0 = dstRoot
  /\ run = "first"
  /\ pc = "start"
  /\ copy_tasks = {}
  /\ delete_tasks = {}
  /\ copy_state = NoTasks
  /\ delete_state = NoTasks
  /\ dst_dirs = {}
  /\ removing = Root
  /\ log = {}
  /\ ext = 0
  /\ attempts = NoAttempts
  /\ copy_count = 0
  /\ cpus = 1
  /\ chunks = << >>

Init == InitFrom(SrcTrees, DstTrees)

InitExt == InitFrom(PlainSrcTrees, PlainDstTrees)

InitSkip == InitFrom(JunkSrcTrees, JunkDstTrees)

-----------------------------------------------------------------------------
(* sync_folders *)

\* Lines 205-210: the source check (ValueError), the destination root, then
\* sync_directories, whose exception ends the call.
Begin ==
  /\ pc = "start"
  /\ LET e == sync_folders_entry(srcRoot, dstRoot)
         r == sync_directories(src, dst)
     IN  /\ dstRoot' = e.destination_exists
         /\ IF e.raises
              THEN pc' = "error" /\ dst' = dst
              ELSE /\ dst' = r.tree
                   /\ pc' = IF r.ok THEN "plan" ELSE "crashed"
  /\ UNCHANGED << src, srcRoot, dst0, dstRoot0, run, copy_tasks, delete_tasks,
                  copy_state, delete_state, dst_dirs, removing, log, ext,
                  attempts, chunk_vars >>

\* Lines 212-231: the copy set and the delete set.  An exception of
\* should_copy is not caught and ends the call.
Plan ==
  /\ pc = "plan"
  /\ IF plan_raises(src, dst)
       THEN /\ pc' = "crashed"
            /\ UNCHANGED << copy_tasks, delete_tasks, copy_state, delete_state,
                            attempts >>
       ELSE /\ pc' = "exec"
            /\ copy_tasks' = plan_copy_tasks(src, dst)
            /\ delete_tasks' = plan_delete_tasks(src, dst)
            /\ copy_state' = [p \in copy_tasks' |-> "todo"]
            /\ delete_state' = [p \in delete_tasks' |-> "todo"]
            /\ attempts' = NoAttempts
  /\ UNCHANGED << src, srcRoot, dst, dstRoot, dst0, dstRoot0, run, dst_dirs,
                  removing, log, ext,
                  chunk_vars >>

\* What becomes of a task whose exception was caught and logged: it is
\* abandoned for the run.
\* (Variant: the task is queued again.)
after_failure_retry == "todo"

after_failure == "failed"

\* The task is started once more (executor.submit has run it).
Started(kind, p) ==
  [attempts EXCEPT ![<<kind, p>>] = IF @ < MaxAttempts THEN @ + 1 ELSE @]

\* pool.map returns when every copy_worker has returned, and a copy_worker
\* returns when its ThreadPoolExecutor has shut down.
\* (Variant: pool.map_async, which does not wait.)
CopiesFinished_unawaited == TRUE

CopiesFinished == \A p \in copy_tasks : copy_state[p] \in {"done", "failed"}

\* The with block of the delete pool ends when every delete_file_safe is over.
\* (Variant: the pool is not waited for.)
DeletesFinished_unawaited == TRUE

DeletesFinished == \A p \in delete_tasks : delete_state[p] \in {"done", "failed"}

\* (Variant of CopyWrite: the write ends before the whole content is there.)
CopyWrite_truncated(p) ==
  /\ pc = "exec"
  /\ p \in copy_tasks
  /\ copy_state[p] = "todo"
  /\ dst[p].kind # "dir"
  /\ attempts' = Started("copy", p)
  /\ LET r == makedirs(dst, Parent(p))
     IN  IF r.ok
           THEN /\ \E now \in Times :
                     dst' = [r.tree EXCEPT ![p] = File(<<"partial", p>>, now)]
                /\ copy_state' = [copy_state EXCEPT ![p] = "written"]
                /\ log' = log
           ELSE /\ dst' = r.tree
                /\ copy_state' = [copy_state EXCEPT ![p] = after_failure]
                /\ log' = log \cup { <<"error", "copy", p>> }
  /\ UNCHANGED << src, srcRoot, dstRoot, dst0, dstRoot0, run, pc, copy_tasks,
                  delete_tasks, delete_state, dst_dirs, removing, ext, chunk_vars >>

\* thread_copy, first half of copy_file: os.makedirs of the parent, then the
\* content is written by shutil.copy2 (the file's time is the time of the
\* write).  An exception is caught and logged; the task is over.
CopyWrite(p) ==
  /\ pc = "exec"
  /\ p \in copy_tasks
  /\ copy_state[p] = "todo"
  /\ dst[p].kind # "dir"
  /\ attempts' = Started("copy", p)
  /\ LET r == makedirs(dst, Parent(p))
     IN  IF r.ok
           THEN /\ \E now \in Times :
                     dst' = [r.tree EXCEPT ![p] = File(src[p].content, now)]
                /\ copy_state' = [copy_state EXCEPT ![p] = "written"]
                /\ log' = log
           ELSE /\ dst' = r.tree
                /\ copy_state' = [copy_state EXCEPT ![p] = after_failure]
                /\ log' = log \cup { <<"error", "copy", p>> }
  /\ UNCHANGED << src, srcRoot, dstRoot, dst0, dstRoot0, run, pc, copy_tasks,
                  delete_tasks, delete_state, dst_dirs, removing, ext,
                  chunk_vars >>

\* (Variant of CopyStat: shutil.copy2 with its arguments exchanged.)
CopyStat_reversed(p) ==
  /\ pc = "exec"
  /\ p \in copy_tasks
  /\ copy_state[p] = "written"
  /\ src' = [src EXCEPT ![p].mtime = dst[p].mtime]
  /\ copy_state' = [copy_state EXCEPT ![p] = "done"]
  /\ UNCHANGED << dst, srcRoot, dstRoot, dst0, dstRoot0, run, pc, copy_tasks,
                  delete_tasks, delete_state, dst_dirs, removing, log, ext,
                  attempts, chunk_vars >>

\* Second half of shutil.copy2: the source's modification time is set.
CopyStat(p) ==
  /\ pc = "exec"
  /\ p \in copy_tasks
  /\ copy_state[p] = "written"
  /\ dst' = [dst EXCEPT ![p].mtime = src[p].mtime]
  /\ copy_state' = [copy_state EXCEPT ![p] = "done"]
  /\ UNCHANGED << src, srcRoot, dstRoot, dst0, dstRoot0, run, pc, copy_tasks,
                  delete_tasks, delete_state, dst_dirs, removing, log, ext,
                  attempts, chunk_vars >>

\* delete_file_safe, submitted once pool.map has returned.
Delete(p) ==
  /\ pc = "exec"
  /\ CopiesFinished
  /\ p \in delete_tasks
  /\ delete_state[p] = "todo"
  /\ attempts' = Started("delete", p)
  /\ dst' = delete_file(dst, p)
  /\ delete_state' = [delete_state EXCEPT ![p] = "done"]
  /\ UNCHANGED << src, srcRoot, dstRoot, dst0, dstRoot0, run, pc, copy_tasks,
                  delete_tasks, copy_state, dst_dirs, removing, log, ext,
                  chunk_vars >>

-----------------------------------------------------------------------------
(* remove_obsolete_directories *)

\* Lines 110-113: the scans and the sort, once the delete pool has shut down.
ScanObsolete ==
  /\ pc = "exec"
  /\ CopiesFinished
  /\ DeletesFinished
  /\ dst_dirs' = obsolete_directories(src, dst)
  /\ pc' = "rmdirs"
  /\ UNCHANGED << src, srcRoot, dst, dstRoot, dst0, dstRoot0, run, copy_tasks,
                  delete_tasks, copy_state, delete_state, removing, log, ext,
                  attempts, chunk_vars >>

\* Line 119: os.listdir of the next directory; line 124 when it is not empty.
RemoveCheck(d) ==
  /\ pc = "rmdirs"
  /\ removing = Root
  /\ d \in dst_dirs
  /\ sorted_first(d, dst_dirs)
  /\ IF listdir(dst, d) = {}
       THEN removing' = d /\ UNCHANGED << dst_dirs, log >>
       ELSE /\ dst_dirs' = dst_dirs \ {d}
            /\ log' = log \cup { <<"warning", "not_empty", d>> }
            /\ removing' = removing
  /\ UNCHANGED << src, srcRoot, dst, dstRoot, dst0, dstRoot0, run, pc, copy_tasks,
                  delete_tasks, copy_state, delete_state, ext,
                  attempts, chunk_vars >>

\* Line 120: os.rmdir, which fails on a directory that is not empty; lines
\* 125-126 catch and log the failure.
RemoveDir ==
  /\ pc = "rmdirs"
  /\ removing # Root
  /\ IF listdir(dst, removing) = {}
       THEN dst' = [dst EXCEPT ![removing] = NoEntry] /\ log' = log
       ELSE dst' = dst /\ log' = log \cup { <<"error", "rmdir", removing>> }
  /\ dst_dirs' = dst_dirs \ {removing}
  /\ removing' = Root
  /\ UNCHANGED << src, srcRoot, dstRoot, dst0, dstRoot0, run, pc, copy_tasks,
                  delete_tasks, copy_state, delete_state, ext,
                  attempts, chunk_vars >>

\* The loop is over: sync_folders returns.
Finish ==
  /\ pc = "rmdirs"
  /\ removing = Root
  /\ dst_dirs = {}
  /\ pc' = "done"
  /\ UNCHANGED << src, srcRoot, dst, dstRoot, dst0, dstRoot0, run, copy_tasks,
                  delete_tasks, copy_state, delete_state, dst_dirs, removing, log, ext,
                  attempts, chunk_vars >>

-----------------------------------------------------------------------------
(* The callers and the environment *)

\* sync_folders is called again, with the source as it was.
Rerun ==
  /\ pc = "done"
  /\ run = "first"
  /\ run' = "second"
  /\ pc' = "start"
  /\ dst0' = dst
  /\ dstRoot0' = dstRoot
  /\ copy_tasks' = {}
  /\ delete_tasks' = {}
  /\ copy_state' = NoTasks
  /\ delete_state' = NoTasks
  /\ attempts' = NoAttempts
  /\ log' = {}
  /\ UNCHANGED << src, srcRoot, dst, dstRoot, dst_dirs, removing, ext,
                  chunk_vars >>

\* An external actor creates a file in a destination directory while the
\* plan is being executed.
ExtAdd(p) ==
  /\ pc \in {"exec", "rmdirs"}
  /\ ext < MaxExt
  /\ p \in MainPaths
  /\ dst[p].kind = "none"
  /\ Len(p) > 1 => dst[Parent(p)].kind = "dir"
  /\ dst' = [dst EXCEPT ![p] = File(<<"ext", p>>, 1)]
  /\ ext' = ext + 1
  /\ UNCHANGED << src, srcRoot, dstRoot, dst0, dstRoot0, run, pc, copy_tasks,
                  delete_tasks, copy_state, delete_state, dst_dirs, removing, log,
                  attempts, chunk_vars >>

-----------------------------------------------------------------------------
(* Failing tasks and vanishing paths *)

\* (Variant of CopyFail: the exception of copy_file is not caught.)
CopyFail_uncaught(p) ==
  /\ pc = "exec"
  /\ p \in copy_tasks
  /\ copy_state[p] = "todo"
  /\ pc' = "crashed"
  /\ UNCHANGED << src, srcRoot, dst, dstRoot, dst0, dstRoot0, run, copy_tasks,
                  delete_tasks, copy_state, delete_state, dst_dirs, removing,
                  log, ext, attempts, chunk_vars >>

\* thread_copy when copy_file raises for a reason outside the trees
\* (permission denied, disk full, source path vanished): lines 159-160 catch
\* and log it.  Nothing was written, or a part of the content was.
CopyFail(p) ==
  /\ pc = "exec"
  /\ p \in copy_tasks
  /\ copy_state[p] = "todo"
  /\ dst[p].kind # "dir"
  /\ attempts' = Started("copy", p)
  /\ LET r == makedirs(dst, Parent(p))
     IN  \/ dst' = dst
         \/ /\ r.ok
            /\ \E now \in Times :
                 dst' = [r.tree EXCEPT ![p] = File(<<"partial", p>>, now)]
  /\ copy_state' = [copy_state EXCEPT ![p] = after_failure]
  /\ log' = log \cup { <<"error", "copy", p>> }
  /\ UNCHANGED << src, srcRoot, dstRoot, dst0, dstRoot0, run, pc, copy_tasks,
                  delete_tasks, delete_state, dst_dirs, removing, ext, chunk_vars >>

\* delete_file, line 44: os.path.exists(path).  A missing path ends the task
\* without an error.
DeleteCheck(p) ==
  /\ pc = "exec"
  /\ CopiesFinished
  /\ p \in delete_tasks
  /\ delete_state[p] = "todo"
  /\ attempts' = Started("delete", p)
  /\ delete_state' =
       [delete_state EXCEPT ![p] = IF dst[p].kind = "none" THEN "done" ELSE "checked"]
  /\ UNCHANGED << src, srcRoot, dst, dstRoot, dst0, dstRoot0, run, pc, copy_tasks,
                  delete_tasks, copy_state, dst_dirs, removing, log, ext, chunk_vars >>

\* delete_file, line 45: os.remove(path), which raises FileNotFoundError on
\* a missing path; delete_file_safe catches and logs it (lines 171-172).
DeleteRemove(p) ==
  /\ pc = "exec"
  /\ p \in delete_tasks
  /\ delete_state[p] = "checked"
  /\ IF dst[p].kind = "file"
       THEN /\ dst' = [dst EXCEPT ![p] = NoEntry]
            /\ delete_state' = [delete_state EXCEPT ![p] = "done"]
            /\ log' = log
       ELSE /\ dst' = dst
            /\ delete_state' = [delete_state EXCEPT ![p] = after_failure]
            /\ log' = log \cup { <<"error", "delete", p>> }
  /\ UNCHANGED << src, srcRoot, dstRoot, dst0, dstRoot0, run, pc, copy_tasks,
                  delete_tasks, copy_state, dst_dirs, removing, ext, attempts,
                  chunk_vars >>

\* os.remove raises on a file that is there (permission denied); lines
\* 171-172 catch and log it.
DeleteFail(p) ==
  /\ pc = "exec"
  /\ p \in delete_tasks
  /\ delete_state[p] = "checked"
  /\ dst[p].kind = "file"
  /\ delete_state' = [delete_state EXCEPT ![p] = after_failure]
  /\ log' = log \cup { <<"error", "delete", p>> }
  /\ UNCHANGED << src, srcRoot, dst, dstRoot, dst0, dstRoot0, run, pc, copy_tasks,
                  delete_tasks, copy_state, dst_dirs, removing, ext, attempts,
                  chunk_vars >>

\* An external actor removes a file of the delete set before or during its
\* delete task.
ExtRemove(p) ==
  /\ pc = "exec"
  /\ ext < MaxExt
  /\ p \in delete_tasks
  /\ delete_state[p] \in {"todo", "checked"}
  /\ dst[p].kind = "file"
  /\ dst' = [dst EXCEPT ![p] = NoEntry]
  /\ ext' = ext + 1
  /\ UNCHANGED << src, srcRoot, dstRoot, dst0, dstRoot0, run, pc, copy_tasks,
                  delete_tasks, copy_state, delete_state, dst_dirs, removing, log,
                  attempts, chunk_vars >>

-----------------------------------------------------------------------------
(* Termination of the process and the next call *)

\* The source directories sync_directories has gone through when the process
\* is terminated inside it: a prefix of the top-down walk.
WalkPrefixes ==
  { todo \in SUBSET scan_directories(src) :
      \A d \in todo : Parent(d) = Root \/ Parent(d) \in todo }

\* The process is terminated during the first call: before or inside
\* sync_directories, before or after the plan, between two tasks, between the
\* write of a file and the setting of its time, or between two removals.
Kill ==
  /\ run = "first"
  /\ pc \in {"start", "plan", "exec", "rmdirs"}
  /\ pc' = "killed"
  /\ IF pc = "start" /\ srcRoot
       THEN \E todo \in WalkPrefixes :
              /\ dst' = sync_directories_loop(dst, todo).tree
              /\ dstRoot' = IF todo = {} THEN dstRoot ELSE TRUE
       ELSE UNCHANGED << dst, dstRoot >>
  /\ UNCHANGED << src, srcRoot, dst0, dstRoot0, run, copy_tasks, delete_tasks,
                  copy_state, delete_state, dst_dirs, removing, log, ext, attempts,
                  chunk_vars >>

\* sync_folders is called again after the termination.  dst0 stays the
\* destination of before the terminated call.
Restart ==
  /\ pc = "killed"
  /\ run' = "second"
  /\ pc' = "start"
  /\ copy_tasks' = {}
  /\ delete_tasks' = {}
  /\ copy_state' = NoTasks
  /\ delete_state' = NoTasks
  /\ attempts' = NoAttempts
  /\ dst_dirs' = {}
  /\ removing' = Root
  /\ log' = {}
  /\ UNCHANGED << src, srcRoot, dst, dstRoot, dst0, dstRoot0, ext, chunk_vars >>

-----------------------------------------------------------------------------
(* The chunks of the copy phase, lines 233-237 *)

Min(a, b) == IF a <= b THEN a ELSE b

Max(a, b) == IF a >= b THEN a ELSE b

\* The copy tasks one process is meant for: the 100 of len(copy_tasks) // 100.
TasksPerProcess == 100

\* num_processes = min(cpu_count(), max(1, len(copy_tasks) // 100))
num_processes(c, n_cpu) == Min(n_cpu, Max(1, c \div TasksPerProcess))

\* chunk_size = len(copy_tasks) // num_processes + 1
chunk_size(c, n) == c \div n + 1

\* [copy_tasks[i:i + chunk_size] for i in range(0, len(copy_tasks), chunk_size)]:
\* the k-th chunk is the slice [from, to) of the indexes 0 .. c-1.
make_chunks(c, size) ==
  [k \in 1..((c + size - 1) \div size) |->
     [from |-> (k - 1) * size, to |-> Min(k * size, c)]]

CpuCounts == {1, 2, 4, 8, MaxCpu}

InitChunk ==
  /\ srcRoot = TRUE /\ src = EmptyTree
  /\ dstRoot = TRUE /\ dst = EmptyTree
  /\ dst0 = dst /\ dstRoot0 = dstRoot
  /\ run = "first"
  /\ pc = "chunking"
  /\ copy_tasks = {} /\ delete_tasks = {}
  /\ copy_state = NoTasks /\ delete_state = NoTasks
  /\ dst_dirs = {} /\ removing = Root /\ log = {} /\ ext = 0
  /\ attempts = NoAttempts
  /\ copy_count \in 1..MaxCopy
  /\ cpus \in CpuCounts
  /\ chunks = << >>

\* Lines 233-237, for a copy set that is not empty.
Chunk ==
  /\ pc = "chunking"
  /\ chunks' = make_chunks(copy_count,
                           chunk_size(copy_count, num_processes(copy_count, cpus)))
  /\ pc' = "chunked"
  /\ UNCHANGED << src, srcRoot, dst, dstRoot, dst0, dstRoot0, run, copy_tasks,
                  delete_tasks, copy_state, delete_state, dst_dirs, removing, log,
                  ext, attempts, copy_count, cpus >>

-----------------------------------------------------------------------------
(* Specifications *)

RunNext ==
  \/ Begin
  \/ Plan
  \/ \E p \in Paths : CopyWrite(p)
  \/ \E p \in Paths : CopyStat(p)
  \/ \E p \in Paths : Delete(p)
  \/ ScanObsolete
  \/ \E d \in Paths : RemoveCheck(d)
  \/ RemoveDir
  \/ Finish

Next == RunNext \/ Rerun

NextExt == RunNext \/ \E p \in Paths : ExtAdd(p)

Spec == Init /\ [][Next]_vars

SpecSkip == InitSkip /\ [][Next]_vars

SpecExt == InitExt /\ [][NextExt]_vars

\* A call whose tasks may fail and whose delete set an external actor may
\* empty; the steps of delete_file are taken one by one.  The program goes on
\* while it has a step to take.
RunEnv ==
  \/ Begin
  \/ Plan
  \/ \E p \in Paths : CopyWrite(p)
  \/ \E p \in Paths : CopyStat(p)
  \/ \E p \in Paths : CopyFail(p)
  \/ \E p \in Paths : DeleteCheck(p)
  \/ \E p \in Paths : DeleteRemove(p)
  \/ \E p \in Paths : DeleteFail(p)
  \/ ScanObsolete
  \/ \E d \in Paths : RemoveCheck(d)
  \/ RemoveDir
  \/ Finish

NextEnv == RunEnv \/ \E p \in Paths : ExtRemove(p)

SpecEnv == InitExt /\ [][NextEnv]_vars /\ WF_vars(RunEnv)

\* A first call that may be terminated anywhere, and the call after it.
NextKill == RunNext \/ Kill \/ Restart

SpecKill == Init /\ [][NextKill]_vars

\* The chunking of a copy set of any size.
SpecChunk == InitChunk /\ [][Chunk]_vars

\* Sanity of the model: the trees stay well formed, and no copy task targets
\* a directory.
TypeOK ==
  /\ WellFormed(src) /\ WellFormed(dst)
  /\ pc \in {"start", "plan", "exec", "rmdirs", "done", "error", "crashed",
            "killed", "chunking", "chunked"}
  /\ \A p \in copy_tasks : copy_state[p] = "todo" => dst[p].kind # "dir"

-----------------------------------------------------------------------------
(* Vocabulary of the properties *)

\* The source files whose name does not match the skip predicate.
NonSkipSourceFiles ==
  { p \in Paths : src[p].kind = "file" /\ ~should_skip_file(Basename(p)) }

\* The call has returned normally.
Returned == pc = "done"

\* The plan of the current run has been computed.
Planned == pc \in {"exec", "rmdirs", "done"}

NoTaskFailed == \A p \in copy_tasks : copy_state[p] # "failed"

\* The destination holds the source's file at p.
Mirrored(p) == dst[p].kind = "file" /\ dst[p].content = src[p].content

\* A destination directory without a source counterpart.
Obsolete(d) == dst[d].kind = "dir" /\ src[d].kind # "dir"

\* The names the skip-exactness property lists.
ListedSkipName(n) ==
  \/ n \in { ".DS_Store", "Thumbs.db", "Desktop.ini", ".localized" }
  \/ StartsWith(NameChars(n), <<".", "_">>)

\* The step of Plan that yields a plan.
PlanStep == pc = "plan" /\ pc' = "exec"

-----------------------------------------------------------------------------
(* C1 *)

\* C1 as stated: after a run in which no task fails, every non-skip source
\* file is at the same relative path of the destination with the source's
\* content, whatever the destination held before.
C1_CompletenessAsStated ==
  (Returned /\ NoTaskFailed) => \A p \in NonSkipSourceFiles : Mirrored(p)

\* What the destination held at p when the run started is never overwritten:
\* an entry not older than the source file, or a file with the source's digest.
KeptByClassifier(p) ==
  /\ dst0[p].kind # "none"
  /\ \/ dst0[p].mtime >= src[p].mtime
     \/ dst0[p].kind = "file" /\ file_hash(dst0[p].content) = file_hash(src[p].content)

\* C1, amended: after a run in which no task fails, every non-skip source file
\* is mirrored in the destination, unless the destination held at its path,
\* when the run started, an entry not older than the source file or a file
\* with the same digest.
C1_Completeness ==
  (Returned /\ NoTaskFailed) =>
    \A p \in NonSkipSourceFiles : Mirrored(p) \/ KeptByClassifier(p)

\* A run that replaced an older destination file of another content, and
\* left alone a newer one of another content.
C1_Witness ==
  /\ Returned /\ NoTaskFailed /\ run = "first"
  /\ \E p \in NonSkipSourceFiles :
       /\ dst0[p].kind = "file"
       /\ dst0[p].content = OldContent(p)
       /\ dst0[p].mtime < src[p].mtime
       /\ Mirrored(p)

-----------------------------------------------------------------------------
(* C2 *)

\* C2 as stated: with the destination empty or absent at the start, after the
\* run every file of the source tree is in the destination with its content.
C2_EmptyDestinationAsStated ==
  (Returned /\ dst0 = EmptyTree) =>
    \A p \in Paths : src[p].kind = "file" => Mirrored(p)

\* C2, amended: with the destination empty or absent at the start, after the
\* run every source file whose name does not match the skip predicate, at any
\* depth, is in the destination with the source's content.
C2_EmptyDestination ==
  (Returned /\ dst0 = EmptyTree) => \A p \in NonSkipSourceFiles : Mirrored(p)

\* A run from an absent destination that mirrored a root file and a nested one.
C2_Witness ==
  /\ Returned /\ dst0 = EmptyTree /\ ~dstRoot0
  /\ <<"f">> \in NonSkipSourceFiles /\ Mirrored(<<"f">>)
  /\ <<"a", "b">> \in NonSkipSourceFiles /\ Mirrored(<<"a", "b">>)
  /\ copy_tasks = { <<"f">>, <<"a", "b">> }

-----------------------------------------------------------------------------
(* C3 *)

\* C3: the second of two runs in succession computes an empty copy set and an
\* empty delete set.
C3_Convergence ==
  (run = "second" /\ Planned) => (copy_tasks = {} /\ delete_tasks = {})

-----------------------------------------------------------------------------
(* C4 *)

\* C4: a destination file of the start of the run whose relative path is not
\* a skip-filtered source path, or whose name matches the skip predicate, does
\* not exist after the run.
C4_ObsolescenceRemoval ==
  Returned =>
    \A p \in Paths :
      ( /\ dst0[p].kind = "file"
        /\ \/ p \notin NonSkipSourceFiles
           \/ ListedSkipName(Basename(p)) )
      => dst[p].kind = "none"

\* A run that removed a junk file the source also holds, and a file the
\* source does not hold.
C4_Witness ==
  /\ Returned
  /\ dst0[<<"a", "._j">>].kind = "file" /\ src[<<"a", "._j">>].kind = "file"
  /\ dst[<<"a", "._j">>].kind = "none"
  /\ dst0[<<"f">>].kind = "file" /\ src[<<"f">>].kind = "none"
  /\ dst[<<"f">>].kind = "none"

-----------------------------------------------------------------------------
(* C5 *)

\* C5: after a run every source directory is a directory of the destination,
\* whatever the destination held at its path before.
C5_DirectoryMirroring ==
  Returned => \A d \in Paths : src[d].kind = "dir" => dst[d].kind = "dir"

-----------------------------------------------------------------------------
(* C6 *)

\* C6: after a run no destination directory without a source counterpart is
\* left in place while empty.
C6_NoEmptyObsoleteDirectory ==
  Returned => \A d \in Paths : Obsolete(d) => listdir(dst, d) # {}

\* A run that removed a chain of two nested obsolete directories, the outer
\* one emptied by the deletion of its file and the removal of its child.
C6_Witness ==
  /\ Returned
  /\ src[<<"a">>].kind = "none"
  /\ dst0[<<"a">>].kind = "dir"
  /\ dst0[<<"a", "b">>].kind = "dir"
  /\ dst0[<<"a", "._j">>].kind = "file"
  /\ dst[<<"a">>].kind = "none"

-----------------------------------------------------------------------------
(* C7 *)

\* The examination of d by remove_obsolete_directories ends with this step
\* and d is still there.
RetainedByStep(d) == d \in dst_dirs /\ d \notin dst_dirs' /\ dst'[d].kind = "dir"

\* A directory that disappears in a step has no source counterpart and was
\* empty.
RemovalIsSafe ==
  \A d \in Paths :
    (dst[d].kind = "dir" /\ dst'[d].kind # "dir") =>
      (src[d].kind # "dir" /\ listdir(dst, d) = {})

\* C7 as stated: no directory with a source counterpart and no directory with
\* an entry is ever removed; an obsolete directory that is not empty is
\* retained with its contents and a warning is emitted, also when the entry
\* was added between the emptiness check and the removal call.
C7_SafeRemovalAsStated ==
  [][ /\ RemovalIsSafe
      /\ \A d \in Paths :
           RetainedByStep(d) =>
             /\ listdir(dst, d) # {}
             /\ dst' = dst
             /\ <<"warning", "not_empty", d>> \in log' ]_vars

\* C7, what the code guarantees: no directory with a source counterpart and no directory with
\* an entry is ever removed; an obsolete directory that is not empty is
\* retained with its contents, with a warning when the emptiness check finds
\* the entry, and with an error (the failed removal) when the entry was added
\* between the emptiness check and the removal call.
C7_SafeRemoval ==
  [][ /\ RemovalIsSafe
      /\ \A d \in Paths :
           RetainedByStep(d) =>
             /\ listdir(dst, d) # {}
             /\ dst' = dst
             /\ IF removing = d
                  THEN <<"error", "rmdir", d>> \in log'
                  ELSE <<"warning", "not_empty", d>> \in log' ]_vars

\* An obsolete directory found empty, given an entry by the external actor
\* before its removal, and retained with that entry.
C7_Witness ==
  \E d \in Paths :
    /\ <<"error", "rmdir", d>> \in log
    /\ Obsolete(d)
    /\ listdir(dst, d) # {}
    /\ removing = Root

-----------------------------------------------------------------------------
(* C8 *)

\* C8: in every plan, no file with a listed skip name is in the copy set, and
\* every such file under the destination at planning time is in the delete
\* set, wherever it lies and whether or not the source holds it too.
C8_SkipExactness ==
  [][ PlanStep =>
        /\ \A p \in copy_tasks' : ~ListedSkipName(Basename(p))
        /\ \A p \in Paths :
             (dst[p].kind = "file" /\ ListedSkipName(Basename(p)))
               => p \in delete_tasks' ]_vars

\* A plan for a source and a destination that both hold a root-level and a
\* nested junk file: both are deleted, none is copied.
C8_Witness ==
  /\ pc = "exec"
  /\ src[<<"Thumbs.db">>].kind = "file" /\ src[<<"a", "._j">>].kind = "file"
  /\ { <<"Thumbs.db">>, <<"a", "._j">> } \subseteq delete_tasks
  /\ copy_tasks = { <<"f">> }

-----------------------------------------------------------------------------
(* C9 *)

\* C9 as stated: should_copy returns true exactly when dst does not exist, or
\* src is newer than dst and their contents differ.
C9_ShouldCopyAsStated ==
  [][ PlanStep =>
        \A p \in NonSkipSourceFiles :
          p \in copy_tasks' <=>
            \/ dst[p].kind = "none"
            \/ src[p].mtime > dst[p].mtime /\ src[p].content # dst[p].content ]_vars

\* C9, amended: should_copy returns true exactly when dst does not exist, or
\* src is newer than dst and their digests differ; it raises when dst is a
\* directory older than src; so it returns false whenever dst exists and is
\* not older than src, whatever the contents.
C9_ShouldCopy ==
  [][ /\ PlanStep =>
           \A p \in NonSkipSourceFiles :
             /\ p \in copy_tasks' <=>
                  \/ dst[p].kind = "none"
                  \/ /\ src[p].mtime > dst[p].mtime
                     /\ file_hash(src[p].content) # file_hash(dst[p].content)
             /\ (dst[p].kind # "none" /\ dst[p].mtime >= src[p].mtime)
                  => p \notin copy_tasks'
      /\ (pc = "plan" /\ pc' = "crashed") <=>
           /\ pc = "plan"
           /\ \E p \in NonSkipSourceFiles :
                dst[p].kind = "dir" /\ src[p].mtime > dst[p].mtime ]_vars

\* A plan that copies neither a destination file of another content that is
\* not older than the source's, nor an older one of the same digest.
C9_Witness ==
  /\ pc = "exec"
  /\ copy_tasks = {}
  /\ dst[<<"f">>].kind = "file" /\ src[<<"f">>].kind = "file"
  /\ dst[<<"f">>].content = OldContent(<<"f">>)
  /\ dst[<<"f">>].mtime >= src[<<"f">>].mtime
  /\ dst[<<"a">>].kind = "file" /\ src[<<"a">>].kind = "file"
  /\ dst[<<"a">>].content = CollidingContent(<<"a">>)
  /\ dst[<<"a">>].mtime < src[<<"a">>].mtime

-----------------------------------------------------------------------------
(* C10 *)

\* C10: when source_root does not exist the call fails before any plan, and
\* the destination root and everything under it stay as they were; when it
\* exists, the destination root exists from the first step on.
C10_SourceMissing ==
  /\ ~srcRoot =>
       /\ pc \in {"start", "error"}
       /\ dst = dst0 /\ dstRoot = dstRoot0
       /\ copy_tasks = {} /\ delete_tasks = {}
  /\ (srcRoot /\ pc # "start") => dstRoot

\* The call has failed on a missing source, the destination root absent
\* before and after.
C10_Witness == pc = "error" /\ ~srcRoot /\ ~dstRoot0 /\ ~dstRoot

\* The call has made a destination root that was absent.
C10_WitnessCreated == srcRoot /\ ~dstRoot0 /\ dstRoot /\ pc = "plan"

-----------------------------------------------------------------------------
(* C11 *)

\* A step of a copy task, of a delete task, of remove_obsolete_directories.
CopyStep == pc = "exec" /\ pc' = "exec" /\ copy_state' # copy_state

DeleteStep == pc = "exec" /\ pc' = "exec" /\ delete_state' # delete_state

ObsoleteStep ==
  \/ pc = "exec" /\ pc' = "rmdirs"
  \/ pc = "rmdirs" /\ (dst_dirs' # dst_dirs \/ removing' # removing)

\* C11: within a run no copy task takes a step before sync_directories is
\* over (every source directory has its path in the destination), no delete
\* task takes a step before every copy task has finished, and
\* remove_obsolete_directories neither scans, examines nor removes a
\* directory before every delete task has finished.
C11_PhaseOrdering ==
  [][ /\ CopyStep => \A d \in scan_directories(src) : dst[d].kind # "none"
      /\ DeleteStep => \A p \in copy_tasks : copy_state[p] \in {"done", "failed"}
      /\ ObsoleteStep =>
           /\ \A p \in copy_tasks : copy_state[p] \in {"done", "failed"}
           /\ \A p \in delete_tasks : delete_state[p] \in {"done", "failed"} ]_vars

\* A run that made a directory, copied a file into it, deleted a file and
\* went through the obsolete directories.
C11_Witness ==
  /\ Returned
  /\ dst0[<<"a">>].kind = "none" /\ dst[<<"a">>].kind = "dir"
  /\ copy_tasks = { <<"a", "b">> } /\ copy_state[<<"a", "b">>] = "done"
  /\ delete_tasks = { <<"f">> } /\ delete_state[<<"f">>] = "done"

-----------------------------------------------------------------------------
(* C12 *)

\* Every task of the plan is over, and each failed one has its error logged.
AllTasksOver ==
  /\ \A p \in copy_tasks :
       /\ copy_state[p] \in {"done", "failed"}
       /\ copy_state[p] = "failed" => <<"error", "copy", p>> \in log
  /\ \A p \in delete_tasks :
       /\ delete_state[p] \in {"done", "failed"}
       /\ delete_state[p] = "failed" => <<"error", "delete", p>> \in log

\* Once the plan is executed the call does not end by an exception.
NothingRaisedInExecution ==
  [][ (pc \in {"exec", "rmdirs"}) => (pc' \in {"exec", "rmdirs", "done"}) ]_vars

\* C12: when the copy or the deletion of a file fails, the failure is logged,
\* the other tasks of both sets are still run, nothing is raised to the
\* caller once the plan is executed, and the run goes on through the delete
\* phase and the obsolete directories to its normal end.
C12_FailureContainment ==
  /\ [](Returned => AllTasksOver)
  /\ NothingRaisedInExecution
  /\ (pc = "exec") ~> Returned

\* A run that ended normally after one copy failed, with the other copy and
\* the deletion done.
C12_Witness ==
  /\ Returned
  /\ copy_tasks = { <<"f">>, <<"a", "b">> }
  /\ copy_state[<<"f">>] = "failed" /\ copy_state[<<"a", "b">>] = "done"
  /\ delete_tasks = { <<"a", "._j">> } /\ delete_state[<<"a", "._j">>] = "done"
  /\ dst[<<"a", "b">>].content = src[<<"a", "b">>].content
  /\ dst[<<"a", "._j">>].kind = "none"

-----------------------------------------------------------------------------
(* C13 *)

\* A delete task takes its last step on a path that is missing.
EndsOnMissingPath(p) ==
  /\ pc = "exec"
  /\ p \in delete_tasks
  /\ delete_state[p] \in {"todo", "checked"}
  /\ delete_state'[p] \in {"done", "failed"}
  /\ dst[p].kind = "none"

\* C13: a delete task whose path is already missing, removed by an external
\* actor before the task or between its existence check and its removal
\* call, ends as a success and logs no error.
C13_MissingPathIsSuccess ==
  [][ \A p \in Paths :
        EndsOnMissingPath(p) => (delete_state'[p] = "done" /\ log' = log) ]_vars

\* What the code guarantees: the missing path is a success when the existence
\* check finds it missing; when it vanishes after the check, os.remove raises
\* and the error is logged.
C13_MissingPathAtCheck ==
  [][ \A p \in Paths :
        EndsOnMissingPath(p) =>
          IF delete_state[p] = "todo"
            THEN delete_state'[p] = "done" /\ log' = log
            ELSE delete_state'[p] = "failed" /\ <<"error", "delete", p>> \in log' ]_vars

\* A delete task has ended without an error on a path the external actor had
\* removed before its existence check.
C13_Witness ==
  \E p \in delete_tasks :
    /\ ext = 1
    /\ delete_state[p] = "done"
    /\ log = {}
    /\ attempts[<<"delete", p>>] = 1
    /\ \A q \in delete_tasks \ {p} : delete_state[q] = "todo"

-----------------------------------------------------------------------------
(* C14 *)

\* The call after a terminated one has returned, and none of its tasks failed.
RerunReturned == run = "second" /\ Returned /\ NoTaskFailed

-----------------------------------------------------------------------------
(* C15 *)

\* C15: in every run no relative path is in both the copy set and the delete
\* set, and a file a copy task of the run has written is not removed by the
\* delete phase of that run: it is there when the run has returned.
C15_DisjointSets ==
  /\ copy_tasks \cap delete_tasks = {}
  /\ Returned =>
       \A p \in copy_tasks : copy_state[p] = "done" => Mirrored(p)

\* A run with a copy task and a delete task in one directory, both done: the
\* copied file is there, the deleted one is not.
C15_Witness ==
  /\ Returned
  /\ copy_tasks = { <<"a", "b">> } /\ copy_state[<<"a", "b">>] = "done"
  /\ delete_tasks = { <<"a", "._j">> }
  /\ src[<<"a", "._j">>].kind = "file"
  /\ Mirrored(<<"a", "b">>)
  /\ dst[<<"a", "._j">>].kind = "none"

-----------------------------------------------------------------------------
(* C16 *)

\* A step that scans a tree or decides on an action: the plan of the copy
\* and delete sets (scan_files, should_copy), the scan of the obsolete
\* directories (scan_directories), the emptiness test of one (os.listdir).
ScanOrDecisionStep ==
  \/ pc = "plan" /\ pc' # "plan"
  \/ pc = "exec" /\ pc' = "rmdirs"
  \/ pc = "rmdirs" /\ removing = Root /\ (removing' # Root \/ dst_dirs' # dst_dirs)

\* The run has changed the destination tree.
MutationBegun == dst # dst0

\* C16: within a run every scan and every planning decision precedes the
\* first mutation of the destination tree.
C16_PlanThenExecute == [][ ScanOrDecisionStep => ~MutationBegun ]_vars

\* C16, amended: the copy set and the delete set are computed
\* when the destination has changed only by the directories sync_directories
\* made, and nothing is planned between the first task and the last; the
\* obsolete directories are scanned after the last task.
C16_PlanBeforeTasks ==
  [][ /\ (pc = "plan" /\ pc' # "plan") =>
           \A p \in Paths : dst[p] # dst0[p] => (dst0[p].kind = "none" /\ src[p].kind = "dir")
      /\ (pc = "exec" /\ pc' = "exec") =>
           (copy_tasks' = copy_tasks /\ delete_tasks' = delete_tasks)
      /\ (pc = "exec" /\ pc' = "rmdirs") =>
           /\ \A p \in copy_tasks : copy_state[p] \in {"done", "failed"}
           /\ \A p \in delete_tasks : delete_state[p] \in {"done", "failed"} ]_vars

\* The obsolete directories have been scanned after the run had deleted a
\* file, and one of them, emptied by the run, is to be examined.
C16_Witness ==
  /\ pc = "rmdirs"
  /\ delete_tasks # {}
  /\ \E d \in dst_dirs : listdir(dst0, d) # {} /\ listdir(dst, d) = {}

-----------------------------------------------------------------------------
(* C17 *)

\* The chunks are not empty, follow one another without a gap or an overlap,
\* and go from the first copy task to the last.
ContiguousCover ==
  /\ Len(chunks) >= 1
  /\ chunks[1].from = 0
  /\ chunks[Len(chunks)].to = copy_count
  /\ \A k \in 1..Len(chunks) : chunks[k].from < chunks[k].to
  /\ \A k \in 1..(Len(chunks) - 1) : chunks[k + 1].from = chunks[k].to

\* C17: a copy set of c >= 1 tasks is split, for p CPUs and
\* N = min(p, max(1, c // 100)), into exactly N chunks, not empty, contiguous,
\* disjoint and holding every copy task once in the order of the plan.
C17_Chunking ==
  pc = "chunked" =>
    /\ Len(chunks) = num_processes(copy_count, cpus)
    /\ ContiguousCover

\* What the code guarantees: the chunks are at most N, not empty, contiguous,
\* disjoint and hold every copy task once in the order of the plan.
C17_ChunksAtMostWorkers ==
  pc = "chunked" =>
    /\ Len(chunks) <= num_processes(copy_count, cpus)
    /\ ContiguousCover

\* 300 copy tasks on 4 CPUs: three chunks, of 101, 101 and 98 tasks.
C17_Witness ==
  /\ pc = "chunked"
  /\ copy_count = 300 /\ cpus = 4
  /\ chunks = << [from |-> 0, to |-> 101], [from |-> 101, to |-> 202],
                 [from |-> 202, to |-> 300] >>

-----------------------------------------------------------------------------
(* C18 *)

Tasks == ({"copy"} \X copy_tasks) \cup ({"delete"} \X delete_tasks)

TaskState(t) == IF t[1] = "copy" THEN copy_state[t[2]] ELSE delete_state[t[2]]

\* No task is started twice; a task that is over was started once; when the
\* run has returned every task is over.
AttemptedOnce ==
  Planned =>
    \A t \in Tasks :
      /\ attempts[t] <= 1
      /\ TaskState(t) # "todo" => attempts[t] = 1
      /\ Returned => TaskState(t) \in {"done", "failed"}

\* A failed task stays failed for the rest of the run.
NoRetry ==
  [][ (pc \in {"exec", "rmdirs"}) =>
        /\ \A p \in copy_tasks : copy_state[p] = "failed" => copy_state'[p] = "failed"
        /\ \A p \in delete_tasks :
             delete_state[p] = "failed" => delete_state'[p] = "failed" ]_vars

\* C18: every task of the copy set and of the delete set is run exactly once
\* in a run, a failed task is not run again, and the run ends, after every
\* task and the pass over the obsolete directories.
C18_ExactlyOnce ==
  /\ []AttemptedOnce
  /\ NoRetry
  /\ (pc = "exec") ~> (Returned /\ dst_dirs = {})

\* A run that has returned with a failed copy and a failed deletion, each
\* started once.
C18_Witness ==
  /\ Returned
  /\ \E p \in copy_tasks : copy_state[p] = "failed" /\ attempts[<<"copy", p>>] = 1
  /\ \E q \in delete_tasks : delete_state[q] = "failed" /\ attempts[<<"delete", q>>] = 1
  /\ \E p \in copy_tasks : copy_state[p] = "done"

-----------------------------------------------------------------------------
(* C19 *)

\* C19: no step of a run, failing tasks included, changes the source tree:
\* its files and directories, their contents and their modification times,
\* the files with a skip name among them.
C19_SourceUnchanged == [][ src' = src /\ srcRoot' = srcRoot ]_vars

\* A run that has returned after a copy done, a copy failed and a deletion,
\* from a source that holds a file with a skip name.
C19_Witness ==
  /\ Returned
  /\ src[<<"a", "._j">>] = File(SrcContent(<<"a", "._j">>), 1)
  /\ \E p \in copy_tasks : copy_state[p] = "done" /\ dst[p].mtime = src[p].mtime
  /\ \E p \in copy_tasks : copy_state[p] = "failed"
  /\ delete_tasks # {}

-----------------------------------------------------------------------------
(* C20 *)

\* A destination file of the start of the run at the path of a non-skip
\* source file, for which should_copy is false.
LeftAlone(p) ==
  /\ p \in NonSkipSourceFiles
  /\ dst0[p].kind = "file"
  /\ ~should_copy(src[p], dst0[p])

RECURSIVE ParentsAreDirectories(_)
ParentsAreDirectories(p) ==
  \/ Len(p) <= 1
  \/ dst[Parent(p)].kind = "dir" /\ ParentsAreDirectories(Parent(p))

\* C20: a destination file at the path of a non-skip source file for which
\* should_copy is false is in neither set of the run, and the run leaves it
\* as it was: same content, same modification time, in its directories.
C20_UntouchedFile ==
  \A p \in Paths :
    LeftAlone(p) =>
      /\ p \notin copy_tasks /\ p \notin delete_tasks
      /\ dst[p] = dst0[p]
      /\ ParentsAreDirectories(p)

\* A run that copied a file and deleted one next to a nested file whose
\* content differs from the source's and which it left alone.
C20_Witness ==
  /\ Returned
  /\ LeftAlone(<<"a", "b">>)
  /\ dst[<<"a", "b">>].content = OldContent(<<"a", "b">>)
  /\ copy_tasks = { <<"f">> } /\ copy_state[<<"f">>] = "done"
  /\ delete_tasks = { <<"a", "._j">> } /\ delete_state[<<"a", "._j">>] = "done"

====
